---- MODULE Spec2Model ----
(***************************************************************************)
(* Model of the NASM x86 language server (server/server.ts): the per-line  *)
(* tokenizer and classifier, splitLine, semanticsAnalysis, the relative    *)
(* encoding, computeTokenDelta, and the request/notification handlers that *)
(* share the module-level state documents, prevTokens, diagnostics, labels.*)
(*                                                                         *)
(* A text is a sequence of one-character strings; "\n" is the line break.  *)
(* Token positions are 0-based as in the source.                           *)
(***************************************************************************)
EXTENDS Integers, Sequences, FiniteSets, TLC

(* ------------------------------------------------------------------ *)
(* Bounds of the model                                                 *)
(* ------------------------------------------------------------------ *)

\* longest text enumerated character by character
MaxTextLen == 3
\* longest pending diagnostics list the handlers are let to build
MaxPending == 3
\* longest labels list the handlers are let to build
MaxLabels == 2
\* longest encoded array handed to computeTokenDelta directly
MaxArrayLen == 4
\* longest token list handed to the encoder directly
MaxTokens == 3
\* largest line number / column of a token handed to the encoder directly
MaxCoord == 2

(* ------------------------------------------------------------------ *)
(* Vocabularies (server.ts 9-75)                                       *)
(* ------------------------------------------------------------------ *)

instructions ==
  {
   <<"a","d","c">>, <<"a","n","d">>, <<"a","d","d">>, <<"b","s","f">>,
   <<"b","s","r">>, <<"b","t">>, <<"b","t","r">>, <<"b","t","s">>,
   <<"c","m","p">>, <<"c","m","p","s","b">>, <<"c","m","p","s","d">>, <<"c","m","p","s","q">>,
   <<"c","m","p","s","w">>, <<"c","u","p","i","d">>, <<"c","w","d">>, <<"c","d","q">>,
   <<"c","d","o">>, <<"d","e","c">>, <<"d","i","v">>, <<"i","d","i","v">>,
   <<"i","m","u","l">>, <<"l","a","h","f">>, <<"l","e","a">>, <<"l","o","d","s","b">>,
   <<"l","o","d","s","w">>, <<"l","o","d","s","d">>, <<"l","o","d","s","q">>, <<"m","o","v">>,
   <<"m","o","v","s","x">>, <<"m","o","v","s","x","d">>, <<"m","o","v","z","x">>, <<"m","u","l">>,
   <<"n","e","g">>, <<"n","o","t">>, <<"o","r">>, <<"p","o","p">>,
   <<"p","o","p","f","q">>, <<"p","u","s","h">>, <<"p","u","s","h","f","q">>, <<"r","c","l">>,
   <<"r","c","r">>, <<"r","e","p">>, <<"r","e","p","e">>, <<"r","e","p","z">>,
   <<"r","e","p","n","e">>, <<"r","e","p","n","z">>, <<"r","o","l">>, <<"r","o","r">>,
   <<"s","a","h","f">>, <<"s","a","r">>, <<"s","e","t","c","c">>, <<"s","h","l">>,
   <<"s","h","r">>, <<"s","b","b">>, <<"s","t","d">>, <<"s","t","o","s","b">>,
   <<"s","t","o","s","w">>, <<"s","t","o","s","d">>, <<"s","t","o","s","q">>, <<"t","e","s","t">>,
   <<"x","c","h","g">>, <<"x","o","r">>, <<"j","l">>, <<"j","g">>,
   <<"j","a">>, <<"j","b">>, <<"j","l","e">>, <<"j","g","e">>,
   <<"j","a","e">>, <<"j","b","e">>, <<"j","n","e">>, <<"j","s">>,
   <<"j","n","s">>, <<"j","p">>, <<"j","n","p">>, <<"j","c">>,
   <<"j","n","c">>, <<"j","o">>, <<"j","n","o">>, <<"j","m","p">>,
   <<"c","m","o","v","l">>, <<"c","m","o","v","g">>, <<"c","m","o","v","a">>, <<"c","m","o","v","b">>,
   <<"c","m","o","v","l","e">>, <<"c","m","o","v","g","e">>, <<"c","a","l","l">>, <<"r","e","t">>
  }

registers ==
  {
   <<"r","a","x">>, <<"r","b","x">>, <<"r","c","x">>, <<"r","d","x">>,
   <<"r","d","i">>, <<"r","s","i">>, <<"r","b","p">>, <<"r","s","p">>,
   <<"r","8">>, <<"r","9">>, <<"r","1","0">>, <<"r","1","1">>,
   <<"r","1","2">>, <<"r","1","3">>, <<"r","1","4">>, <<"r","1","5">>,
   <<"e","a","x">>, <<"e","b","x">>, <<"e","c","x">>, <<"e","d","x">>,
   <<"e","d","i">>, <<"e","s","i">>, <<"e","b","p">>, <<"e","s","p">>,
   <<"r","8","d">>, <<"r","9","d">>, <<"r","1","0","d">>, <<"r","1","1","d">>,
   <<"r","1","2","d">>, <<"r","1","3","d">>, <<"r","1","4","d">>, <<"r","1","5","d">>,
   <<"a","x">>, <<"b","x">>, <<"c","x">>, <<"d","x">>,
   <<"d","i">>, <<"s","i">>, <<"b","p">>, <<"s","p">>,
   <<"r","8","w">>, <<"r","9","w">>, <<"r","1","0","w">>, <<"r","1","1","w">>,
   <<"r","1","2","w">>, <<"r","1","3","w">>, <<"r","1","4","w">>, <<"r","1","5","w">>,
   <<"a","l">>, <<"b","l">>, <<"c","l">>, <<"d","l">>,
   <<"d","i","l">>, <<"s","i","l">>, <<"b","p","l">>, <<"s","p","l">>,
   <<"r","8","b">>, <<"r","9","b">>, <<"r","1","0","b">>, <<"r","1","1","b">>,
   <<"r","1","2","b">>, <<"r","1","3","b">>, <<"r","1","4","b">>, <<"r","1","5","b">>
  }

types ==
  {
   <<"d","w","o","r","d">>, <<"q","w","o","r","d">>, <<"w","o","r","d">>, <<"b","y","t","e">>
  }

directives ==
  {
   <<"g","l","o","b","a","l">>, <<"s","e","c","t","i","o","n">>, <<"t","e","x","t">>, <<"d","a","t","a">>,
   <<"b","s","s">>
  }
(* ------------------------------------------------------------------ *)
(* Token legend (server.ts 77-88)                                      *)
(* ------------------------------------------------------------------ *)

tokenTypesLegend ==
  <<"keyword", "function", "variable", "number",
    "comment", "type", "macro", "operator">>

tokenModifiersLegend == <<"declaration", "readonly", "deprecated">>

\* tokenTypesLegend.forEach((x, i) => tokenTypes[x] = i)
tokenTypes(x) == (CHOOSE i \in 1..Len(tokenTypesLegend) : tokenTypesLegend[i] = x) - 1

\* tokenModifiersLegend.forEach((x, i) => tokenModifiers[x] = i)
tokenModifiers(x) ==
  (CHOOSE i \in 1..Len(tokenModifiersLegend) : tokenModifiersLegend[i] = x) - 1

\* lsp.DiagnosticSeverity.Error
SeverityError == 1

(* ------------------------------------------------------------------ *)
(* Character classes of the two regular expressions                    *)
(* ------------------------------------------------------------------ *)

\* \d
Digit == {"0", "1", "2", "3", "4", "5", "6", "7", "8", "9"}

\* [_\w]
WordChar ==
  Digit \cup {"_"} \cup
  {"a", "b", "c", "d", "e", "f", "g", "h", "i", "j", "k", "l", "m",
   "n", "o", "p", "q", "r", "s", "t", "u", "v", "w", "x", "y", "z"} \cup
  {"A", "B", "C", "D", "E", "F", "G", "H", "I", "J", "K", "L", "M",
   "N", "O", "P", "Q", "R", "S", "T", "U", "V", "W", "X", "Y", "Z"}

\* length of the match of /^[class]+/ on s (0: no match)
RECURSIVE MatchRun(_, _)
MatchRun(s, class) ==
  IF s # <<>> /\ Head(s) \in class THEN 1 + MatchRun(Tail(s), class) ELSE 0

(* ------------------------------------------------------------------ *)
(* Token, Instruction, Diagnostic (server.ts 153-199)                  *)
(* ------------------------------------------------------------------ *)

Token(line_no, start, value, type, modif) ==
  [line_no |-> line_no, start |-> start, value |-> value, type |-> type, modif |-> modif]

\* Token.length()
TokenLength(t) == Len(t.value)

\* the constructor with this.end at the start of the end token, its length left out
DiagnosticEndAtStart(level, message, begin, end) ==
  [level |-> level,
   message |-> message,
   start |-> [line |-> begin.line_no, character |-> begin.start],
   end |-> [line |-> end.line_no, character |-> end.start],
   relatedInfo |-> <<>>]

\* new Diagnostic(level, message, begin, end): end ?? begin is passed by the caller
Diagnostic(level, message, begin, end) ==
  [level |-> level,
   message |-> message,
   start |-> [line |-> begin.line_no, character |-> begin.start],
   end |-> [line |-> end.line_no, character |-> end.start + TokenLength(end)],
   relatedInfo |-> <<>>]

(* ------------------------------------------------------------------ *)
(* The tokenizer of computeSemanticTokens (server.ts 329-389)          *)
(* ------------------------------------------------------------------ *)

\* text.split("\n"): cur is the line being collected
RECURSIVE SplitText(_, _)
SplitText(text, cur) ==
  IF text = <<>> THEN <<cur>>
  ELSE IF Head(text) = "\n" THEN <<cur>> \o SplitText(Tail(text), <<>>)
  ELSE SplitText(Tail(text), Append(cur, Head(text)))

\* the chain without its directives branch
ClassifyNoDirectives(str) ==
  IF str \in instructions THEN tokenTypes("keyword")
  ELSE IF str \in registers THEN tokenTypes("variable")
  ELSE IF str \in types THEN tokenTypes("type")
  ELSE -1

\* the if / else-if chain over the four vocabularies
Classify(str) ==
  IF str \in instructions THEN tokenTypes("keyword")
  ELSE IF str \in registers THEN tokenTypes("variable")
  ELSE IF str \in types THEN tokenTypes("type")
  ELSE IF str \in directives THEN tokenTypes("macro")
  ELSE -1

\* the while loop with `i += 1` in place of `i += str.length` after a number
RECURSIVE ScanLineStepOne(_, _, _, _)
ScanLineStepOne(line, line_no, i, tokens) ==
  IF ~(i < Len(line)) THEN tokens
  ELSE
    LET remains == SubSeq(line, i + 1, Len(line))
        imm == MatchRun(remains, Digit)
        id == MatchRun(remains, WordChar)
        x == Head(remains)
    IN  IF x = ";"
          THEN Append(tokens, Token(line_no, i, remains, tokenTypes("comment"), 0))
        ELSE IF imm > 0
          THEN ScanLineStepOne(line, line_no, i + 1,
                 Append(tokens, Token(line_no, i, SubSeq(remains, 1, imm), tokenTypes("number"), 0)))
        ELSE IF id > 0
          THEN ScanLineStepOne(line, line_no, i + id,
                 Append(tokens, Token(line_no, i, SubSeq(remains, 1, id),
                                      Classify(SubSeq(remains, 1, id)), 0)))
        ELSE IF x \in {"[", "]", ":"}
          THEN ScanLineStepOne(line, line_no, i + 1,
                 Append(tokens, Token(line_no, i, <<x>>, tokenTypes("operator"), 0)))
        ELSE ScanLineStepOne(line, line_no, i + 1, tokens)

\* the while loop with the comment branch falling through to `i++` in place
\* of `break`
RECURSIVE ScanLineNoBreak(_, _, _, _)
ScanLineNoBreak(line, line_no, i, tokens) ==
  IF ~(i < Len(line)) THEN tokens
  ELSE
    LET remains == SubSeq(line, i + 1, Len(line))
        imm == MatchRun(remains, Digit)
        id == MatchRun(remains, WordChar)
        x == Head(remains)
    IN  IF x = ";"
          THEN ScanLineNoBreak(line, line_no, i + 1,
                 Append(tokens, Token(line_no, i, remains, tokenTypes("comment"), 0)))
        ELSE IF imm > 0
          THEN ScanLineNoBreak(line, line_no, i + imm,
                 Append(tokens, Token(line_no, i, SubSeq(remains, 1, imm), tokenTypes("number"), 0)))
        ELSE IF id > 0
          THEN ScanLineNoBreak(line, line_no, i + id,
                 Append(tokens, Token(line_no, i, SubSeq(remains, 1, id),
                                      Classify(SubSeq(remains, 1, id)), 0)))
        ELSE IF x \in {"[", "]", ":"}
          THEN ScanLineNoBreak(line, line_no, i + 1,
                 Append(tokens, Token(line_no, i, <<x>>, tokenTypes("operator"), 0)))
        ELSE ScanLineNoBreak(line, line_no, i + 1, tokens)

\* the while loop over one line, from offset i, appending to tokens
RECURSIVE ScanLine(_, _, _, _)
ScanLine(line, line_no, i, tokens) ==
  IF ~(i < Len(line)) THEN tokens
  ELSE
    LET remains == SubSeq(line, i + 1, Len(line))
        imm == MatchRun(remains, Digit)
        id == MatchRun(remains, WordChar)
        x == Head(remains)
    IN  IF x = ";"
          THEN Append(tokens, Token(line_no, i, remains, tokenTypes("comment"), 0))
        ELSE IF imm > 0
          THEN ScanLine(line, line_no, i + imm,
                 Append(tokens, Token(line_no, i, SubSeq(remains, 1, imm), tokenTypes("number"), 0)))
        ELSE IF id > 0
          THEN ScanLine(line, line_no, i + id,
                 Append(tokens, Token(line_no, i, SubSeq(remains, 1, id),
                                      Classify(SubSeq(remains, 1, id)), 0)))
        ELSE IF x \in {"[", "]", ":"}
          THEN ScanLine(line, line_no, i + 1,
                 Append(tokens, Token(line_no, i, <<x>>, tokenTypes("operator"), 0)))
        ELSE ScanLine(line, line_no, i + 1, tokens)

\* lines.forEach((line, line_no) => ...), from line index line_no
RECURSIVE ScanLines(_, _, _)
ScanLines(lines, line_no, tokens) ==
  IF line_no >= Len(lines) THEN tokens
  ELSE ScanLines(lines, line_no + 1, ScanLine(lines[line_no + 1], line_no, 0, tokens))

Tokenize(text) == ScanLines(SplitText(text, <<>>), 0, <<>>)

(* ------------------------------------------------------------------ *)
(* splitLine (server.ts 268-287)                                       *)
(* ------------------------------------------------------------------ *)

\* The for loop of splitLine over tokens[k..].  st.curInst is the one array
\* the function allocates; it holds references to Token objects, here the
\* tokens' positions in the document's token list.  lines.push(curInst)
\* stores a reference to that array, never a copy, and curInst is never
\* reassigned, so st.lines only records how many references were pushed.
RECURSIVE SplitLoop(_, _, _)
SplitLoop(tokens, k, st) ==
  IF k > Len(tokens) THEN st
  ELSE
    LET x == tokens[k]
        pushed == IF x.line_no # st.curLine
                    THEN [st EXCEPT !.curLine = x.line_no, !.lines = Append(@, "curInst")]
                    ELSE st
        kept == IF x.type # tokenTypes("comment")
                  THEN [pushed EXCEPT !.curInst = Append(@, k)]
                  ELSE pushed
    IN  SplitLoop(tokens, k + 1, kept)

\* Instruction[]: lines.map((x) => new Instruction(x)); every x is curInst
splitLine(tokens) ==
  LET st == SplitLoop(tokens, 1, [lines |-> <<>>, curInst |-> <<>>, curLine |-> 0])
      lines == Append(st.lines, "curInst")
  IN  [n \in 1..Len(lines) |-> [operands |-> st.curInst]]

(* ------------------------------------------------------------------ *)
(* semanticsAnalysis (server.ts 292-323)                               *)
(* ------------------------------------------------------------------ *)

\* the module-level `diagnostics: Diagnostic[] | null`: <<>> is null,
\* <<list>> is the array list
Null == <<>>

Some(list) == <<list>>

\* The for loop over inst[k..].  st = [threw, tokens, diagnostics, labels]:
\* tokens is the document's token list (the loop writes a head token's type
\* through its reference), diagnostics the array, labels the labels array.
RECURSIVE AnalysisLoop(_, _, _)
AnalysisLoop(inst, k, st) ==
  IF k > Len(inst) THEN st
  ELSE
    LET ops == inst[k].operands
        op(i) == st.tokens[ops[i]]
    IN  IF ops = <<>>
          \* x.head() is undefined: reading .type throws a TypeError
          THEN [st EXCEPT !.threw = TRUE]
        ELSE IF op(1).type # -1
          THEN AnalysisLoop(inst, k + 1, st)
        ELSE IF Len(ops) > 2
          THEN AnalysisLoop(inst, k + 1,
                 [st EXCEPT !.diagnostics = Append(@,
                    Diagnostic(SeverityError, "unexpected content after label",
                               op(3), op(Len(ops))))])
        ELSE IF Len(ops) = 1 \/ op(2).value # <<":">>
          THEN AnalysisLoop(inst, k + 1,
                 [st EXCEPT !.diagnostics = Append(@,
                    Diagnostic(SeverityError, "missing semicolon for labels",
                               op(1), op(1)))])
        ELSE AnalysisLoop(inst, k + 1,
               [st EXCEPT !.tokens[ops[1]].type = tokenTypes("function"),
                          !.labels = Append(@,
                             [op(1) EXCEPT !.type = tokenTypes("function")])])

\* diags is the value of `diagnostics` at the call, lbls that of `labels`;
\* the result carries their values at the return or at the throw
semanticsAnalysis(tokens, diags, lbls) ==
  LET inst == splitLine(tokens)
      list == IF diags = Null THEN <<>> ELSE diags[1]
      st == AnalysisLoop(inst, 1,
              [threw |-> FALSE, tokens |-> tokens, diagnostics |-> list, labels |-> lbls])
  IN  [st EXCEPT !.diagnostics = Some(@)]

(* ------------------------------------------------------------------ *)
(* The relative encoding of computeSemanticTokens (server.ts 393-412)  *)
(* ------------------------------------------------------------------ *)

RECURSIVE RelativeLoop(_, _, _, _)
RelativeLoop(tokens, k, currentLine, currentChar) ==
  IF k > Len(tokens) THEN <<>>
  ELSE
    LET x == tokens[k]
        deltaLine == x.line_no - currentLine
        line1 == IF deltaLine > 0 THEN x.line_no ELSE currentLine
        char1 == IF deltaLine > 0 THEN 0 ELSE currentChar
        deltaStart == x.start - char1
    IN  <<deltaLine, deltaStart, Len(x.value), x.type, x.modif>>
          \o RelativeLoop(tokens, k + 1, line1, x.start)

\* the encoder without `currentChar = 0` on a line advance
RECURSIVE RelativeNoResetLoop(_, _, _, _)
RelativeNoResetLoop(tokens, k, currentLine, currentChar) ==
  IF k > Len(tokens) THEN <<>>
  ELSE
    LET x == tokens[k]
        deltaLine == x.line_no - currentLine
        line1 == IF deltaLine > 0 THEN x.line_no ELSE currentLine
        deltaStart == x.start - currentChar
    IN  <<deltaLine, deltaStart, Len(x.value), x.type, x.modif>>
          \o RelativeNoResetLoop(tokens, k + 1, line1, x.start)

RelativeNoReset(tokens) == RelativeNoResetLoop(tokens, 1, 0, 0)

Relative(tokens) == RelativeLoop(tokens, 1, 0, 0)

(* ------------------------------------------------------------------ *)
(* computeSemanticTokens (server.ts 325-413)                           *)
(* ------------------------------------------------------------------ *)

\* docs is the document store, a function from the identifiers it holds to
\* their texts.  documents.get(uri)?.getText() is undefined for an
\* identifier the store does not hold, and text.split then throws.
computeSemanticTokens(docs, uri, diags, lbls) ==
  IF uri \notin DOMAIN docs
    THEN [threw |-> TRUE, relative |-> <<>>, diagnostics |-> diags, labels |-> lbls]
  ELSE
    LET an == semanticsAnalysis(Tokenize(docs[uri]), diags, lbls)
    IN  [threw |-> an.threw,
         relative |-> IF an.threw THEN <<>> ELSE Relative(an.tokens),
         diagnostics |-> an.diagnostics,
         labels |-> an.labels]

(* ------------------------------------------------------------------ *)
(* computeTokenDelta (server.ts 415-442)                               *)
(* ------------------------------------------------------------------ *)

Min(a, b) == IF a < b THEN a ELSE b

\* while (mismatch < minLen && before[mismatch] === after[mismatch]) mismatch++
RECURSIVE FirstMismatch(_, _, _)
FirstMismatch(before, after, mismatch) ==
  IF mismatch < Min(Len(before), Len(after)) /\ before[mismatch + 1] = after[mismatch + 1]
    THEN FirstMismatch(before, after, mismatch + 1)
    ELSE mismatch

\* the second while loop; the result is <<beforeEnd, afterEnd>>
RECURSIVE LastMismatch(_, _, _, _, _)
LastMismatch(before, after, mismatch, beforeEnd, afterEnd) ==
  IF beforeEnd > mismatch /\ afterEnd > mismatch /\ before[beforeEnd] = after[afterEnd]
    THEN LastMismatch(before, after, mismatch, beforeEnd - 1, afterEnd - 1)
    ELSE <<beforeEnd, afterEnd>>

\* computeTokenDelta with data: after.slice(mismatch), the common suffix kept in
computeTokenDeltaWholeTail(before, after) ==
  LET mismatch == FirstMismatch(before, after, 0)
      ends == LastMismatch(before, after, mismatch, Len(before), Len(after))
  IN  IF mismatch = Len(before) /\ mismatch = Len(after) THEN <<>>
      ELSE <<[start |-> mismatch,
              deleteCount |-> ends[1] - mismatch,
              data |-> SubSeq(after, mismatch + 1, Len(after))]>>

\* computeTokenDelta without the second loop: everything from the first
\* mismatch on is replaced
computeTokenDeltaNoSuffix(before, after) ==
  LET mismatch == FirstMismatch(before, after, 0)
  IN  IF mismatch = Len(before) /\ mismatch = Len(after) THEN <<>>
      ELSE <<[start |-> mismatch,
              deleteCount |-> Len(before) - mismatch,
              data |-> SubSeq(after, mismatch + 1, Len(after))]>>

computeTokenDelta(before, after) ==
  LET mismatch == FirstMismatch(before, after, 0)
      ends == LastMismatch(before, after, mismatch, Len(before), Len(after))
  IN  IF mismatch = Len(before) /\ mismatch = Len(after) THEN <<>>
      ELSE <<[start |-> mismatch,
              deleteCount |-> ends[1] - mismatch,
              data |-> SubSeq(after, mismatch + 1, ends[2])]>>

(* ------------------------------------------------------------------ *)
(* sendDiagnostics (server.ts 231-266)                                 *)
(* ------------------------------------------------------------------ *)

\* one lsp.Diagnostic of the for loop; relatedInformation is only set for a
\* non-empty relatedInfo
LspDiagnostic(x, uri) ==
  LET range == [start |-> x.start, end |-> x.end]
      base == [severity |-> x.level, range |-> range, message |-> x.message,
               source |-> "x86", relatedInformation |-> <<>>]
  IN  IF Len(x.relatedInfo) > 0
        THEN [base EXCEPT !.relatedInformation =
                [i \in 1..Len(x.relatedInfo) |->
                   [location |-> [uri |-> uri, range |-> range],
                    message |-> x.relatedInfo[i]]]]
        ELSE base

\* the result carries the returned diags and the values of `diagnostics` and
\* `labels` at the return or at the throw
sendDiagnostics(docs, uri, diags, lbls) ==
  LET run == IF diags = Null
               THEN computeSemanticTokens(docs, uri, diags, lbls)
               ELSE [threw |-> FALSE, relative |-> <<>>, diagnostics |-> diags, labels |-> lbls]
  IN  IF run.threw
        THEN [threw |-> TRUE, diags |-> <<>>,
              diagnostics |-> run.diagnostics, labels |-> run.labels]
        ELSE [threw |-> FALSE,
              diags |-> [i \in 1..Len(run.diagnostics[1]) |->
                           LspDiagnostic(run.diagnostics[1][i], uri)],
              diagnostics |-> Null,
              labels |-> run.labels]

(* ------------------------------------------------------------------ *)
(* Inputs                                                              *)
(* ------------------------------------------------------------------ *)

\* "mov eax, 5\nfoo:\nbar baz qux:"
EndToEndText ==
  <<"m","o","v"," ","e","a","x",","," ","5","\n","f","o","o",":","\n","b","a","r"," ","b","a","z"," ","q","u","x",":">>

\* "foo:"
LabelText == <<"f","o","o",":">>

\* "foo"
BareText == <<"f","o","o">>

\* "bar baz qux:"
TrailingText == <<"b","a","r"," ","b","a","z"," ","q","u","x",":">>

\* ""
EmptyText == <<>>

\* the texts the documents of the server specifications take
Texts == {LabelText, BareText, TrailingText, EmptyText}

\* the characters of the enumerated texts: an identifier character, a digit,
\* the label colon, the comment marker, a skipped character, the line break
Alphabet == {"a", "5", ":", ";", " ", "\n"}

BoundedTexts == UNION {[1..n -> Alphabet] : n \in 0..MaxTextLen}

\* "mov:", "eax:", "byte:", "data:": a word of each vocabulary placed as a label
MnemonicLabelText == <<"m","o","v",":">>

RegisterLabelText == <<"e","a","x",":">>

TypeLabelText == <<"b","y","t","e",":">>

DirectiveLabelText == <<"d","a","t","a",":">>

\* "foo\nmov:"
LabelThenMnemonicText == <<"f","o","o","\n","m","o","v",":">>

\* "foo bar baz\nqux"
TwoLineTrailingText == <<"f","o","o"," ","b","a","r"," ","b","a","z","\n","q","u","x">>

\* "55 a;": a number, a skipped blank, an identifier and a comment
NumberText == <<"5","5"," ","a",";">>

\* "a" and ":;c" on two lines
CommentText == <<"a","\n",":",";","c">>

ReservedTexts ==
  {MnemonicLabelText, RegisterLabelText, TypeLabelText, DirectiveLabelText,
   LabelThenMnemonicText}

AllTexts ==
  BoundedTexts \cup Texts \cup ReservedTexts
    \cup {EndToEndText, TwoLineTrailingText, NumberText, CommentText}

\* the numbers of the arrays handed to computeTokenDelta directly
ArrayValues == {0, 1}

Arrays == UNION {[1..n -> ArrayValues] : n \in 0..MaxArrayLen}

\* the tokens handed to the encoder directly
TokenValues == {<<"a">>, <<"a", "5">>}

InputTokens ==
  {Token(l, c, v, -1, 0) : l \in 0..MaxCoord, c \in 0..MaxCoord, v \in TokenValues}

\* (line, column) ascending
Before(s, t) == s.line_no < t.line_no \/ (s.line_no = t.line_no /\ s.start <= t.start)

(* ------------------------------------------------------------------ *)
(* State                                                               *)
(* ------------------------------------------------------------------ *)

VARIABLES
  documents,    \* the TextDocuments store: identifier -> text, for the documents held
  prevTokens,   \* Map<string, number[]> (server.ts 151)
  diagnostics,  \* Diagnostic[] | null (server.ts 222)
  labels,       \* the labels array (server.ts 289)
  response,     \* the reply of the handler that ran last (kind "none": a notification)
  clientTokens, \* the client's side of the protocol: identifier -> the token array it
                \* holds, the data of its last full reply with the later edits applied
  pc,           \* "server" (serving), "exited" (the process ended), or the position
                \* of a direct call: "input", then "analysed", "diffed" or "encoded"
  inText,       \* direct call of an analysis pass: the text
  outPass,      \* ... what the pass produced
  inBefore,     \* direct call of computeTokenDelta: before
  inAfter,      \* ... after
  outEdits,     \* ... the returned edits
  inTokens,     \* direct call of the encoder: the token list
  outEncoded    \* ... the encoded array

serverVars == <<documents, prevTokens, diagnostics, labels, response, clientTokens>>

callVars == <<inText, outPass, inBefore, inAfter, outEdits, inTokens, outEncoded>>

vars == <<documents, prevTokens, diagnostics, labels, response, clientTokens, pc,
          inText, outPass, inBefore, inAfter, outEdits, inTokens, outEncoded>>

NoPass == [threw |-> FALSE, tokens |-> <<>>, inst |-> <<>>, steps |-> <<>>,
           analysed |-> <<>>, diagnostics |-> <<>>, relative |-> <<>>]

Reply(kind, uri, threw, items, data, edits) ==
  [kind |-> kind, uri |-> uri, threw |-> threw, items |-> items, data |-> data, edits |-> edits]

NoResponse == Reply("none", "", FALSE, <<>>, <<>>, <<>>)

\* the state after the module is loaded: no document held, prevTokens empty,
\* diagnostics null, labels empty
ServerInit ==
  /\ documents = [u \in {} |-> <<>>]
  /\ prevTokens = [u \in {} |-> <<>>]
  /\ diagnostics = Null
  /\ labels = <<>>
  /\ response = NoResponse
  /\ clientTokens = [u \in {} |-> <<>>]

CallInit ==
  /\ inText = <<>>
  /\ outPass = NoPass
  /\ inBefore = <<>>
  /\ inAfter = <<>>
  /\ outEdits = <<>>
  /\ inTokens = <<>>
  /\ outEncoded = <<>>

Init == ServerInit /\ CallInit /\ pc = "server"

\* the lists the handlers are let to build
PendingLen(diags) == IF diags = Null THEN 0 ELSE Len(diags[1])

Within(r) ==
  /\ PendingLen(r.diagnostics) <= MaxPending
  /\ Len(r.labels) <= MaxLabels

Put(map, key, value) == [k \in DOMAIN map \cup {key} |-> IF k = key THEN value ELSE map[k]]

Remove(map, key) == [k \in DOMAIN map \ {key} |-> map[k]]

(* ------------------------------------------------------------------ *)
(* Handlers                                                            *)
(* ------------------------------------------------------------------ *)

\* before with [start, start + deleteCount) replaced by data
Splice(array, edit) ==
  SubSeq(array, 1, edit.start) \o edit.data
    \o SubSeq(array, edit.start + edit.deleteCount + 1, Len(array))

\* the client's array after a delta reply: its edits applied to what it held
ApplyEdits(array, edits) ==
  IF edits = <<>> THEN array ELSE Splice(array, edits[1])

\* documents.onDidChangeContent (server.ts 218-220), run with the store's new
\* content docs.  The promise sendDiagnostics returns is dropped: when the
\* pass throws, the rejection is unhandled, and the Node runtime either
\* reports it and goes on or ends the process, by its unhandled-rejections
\* mode.  A throw inside a request handler is caught by the connection and
\* answered with an error reply.
OnDidChangeContent(docs, uri) ==
  LET sent == sendDiagnostics(docs, uri, diagnostics, labels)
  IN  /\ Within(sent)
      /\ documents' = docs
      /\ diagnostics' = sent.diagnostics
      /\ labels' = sent.labels
      /\ response' = NoResponse
      /\ pc' \in (IF sent.threw THEN {"server", "exited"} ELSE {"server"})
      /\ UNCHANGED <<prevTokens, clientTokens, callVars>>

\* textDocument/didOpen: the store takes the document, then fires the event
DidOpen(uri, text) ==
  /\ pc = "server"
  /\ uri \notin DOMAIN documents
  /\ OnDidChangeContent(Put(documents, uri, text), uri)

\* textDocument/didChange: the store updates the document, then fires the event
DidChange(uri, text) ==
  /\ pc = "server"
  /\ uri \in DOMAIN documents
  /\ OnDidChangeContent(Put(documents, uri, text), uri)

\* textDocument/didClose: the store drops the document; the server has no handler
DidClose(uri) ==
  /\ pc = "server"
  /\ uri \in DOMAIN documents
  /\ documents' = Remove(documents, uri)
  /\ response' = NoResponse
  /\ UNCHANGED <<prevTokens, diagnostics, labels, clientTokens, pc, callVars>>

\* connection.languages.diagnostics.on (server.ts 201-214)
DiagnosticsOn(uri) ==
  /\ pc = "server"
  /\ IF uri \in DOMAIN documents
       THEN LET sent == sendDiagnostics(documents, uri, diagnostics, labels)
            IN  /\ Within(sent)
                /\ diagnostics' = sent.diagnostics
                /\ labels' = sent.labels
                /\ response' = Reply("diagnostics", uri, sent.threw, sent.diags, <<>>, <<>>)
       ELSE /\ response' = Reply("diagnostics", uri, FALSE, <<>>, <<>>, <<>>)
            /\ UNCHANGED <<diagnostics, labels>>
  /\ UNCHANGED <<documents, prevTokens, clientTokens, pc, callVars>>

\* connection.languages.semanticTokens.on (server.ts 444-449)
SemanticTokensOn(uri) ==
  LET run == computeSemanticTokens(documents, uri, diagnostics, labels)
  IN  /\ pc = "server"
      /\ Within(run)
      /\ diagnostics' = run.diagnostics
      /\ labels' = run.labels
      /\ prevTokens' = IF run.threw THEN prevTokens ELSE Put(prevTokens, uri, run.relative)
      /\ response' = Reply("full", uri, run.threw, <<>>, run.relative, <<>>)
      \* an error reply leaves the client's array as it is
      /\ clientTokens' = IF run.threw THEN clientTokens
                         ELSE Put(clientTokens, uri, run.relative)
      /\ UNCHANGED <<documents, pc, callVars>>

\* connection.languages.semanticTokens.onDelta (server.ts 451-461)
SemanticTokensOnDelta(uri) ==
  LET prior == IF uri \in DOMAIN prevTokens THEN prevTokens[uri] ELSE <<>>
      run == computeSemanticTokens(documents, uri, diagnostics, labels)
      delta == computeTokenDelta(prior, run.relative)
  IN  /\ pc = "server"
      /\ Within(run)
      /\ diagnostics' = run.diagnostics
      /\ labels' = run.labels
      /\ prevTokens' = IF run.threw THEN prevTokens ELSE Put(prevTokens, uri, run.relative)
      /\ response' = Reply("delta", uri, run.threw, <<>>, <<>>,
                           IF run.threw THEN <<>> ELSE delta)
      /\ clientTokens' = IF run.threw THEN clientTokens
                         ELSE Put(clientTokens, uri,
                                  ApplyEdits(IF uri \in DOMAIN clientTokens
                                               THEN clientTokens[uri] ELSE <<>>, delta))
      /\ UNCHANGED <<documents, pc, callVars>>

ServerNext(uris, texts) ==
  \E uri \in uris :
    \/ \E text \in texts : DidOpen(uri, text)
    \/ \E text \in texts : DidChange(uri, text)
    \/ DidClose(uri)
    \/ DiagnosticsOn(uri)
    \/ SemanticTokensOn(uri)
    \/ SemanticTokensOnDelta(uri)

\* one document
Next == ServerNext({"a"}, Texts)

Spec == Init /\ [][Next]_vars

\* the texts of Texts an analysis pass does not throw on
TwoDocTexts == {LabelText, BareText, TrailingText}

\* two documents
NextTwoDocs == ServerNext({"a", "b"}, TwoDocTexts)

SpecTwoDocs == Init /\ [][NextTwoDocs]_vars

(* ------------------------------------------------------------------ *)
(* Direct calls of the pure functions                                  *)
(* ------------------------------------------------------------------ *)

\* the encoded array an analysis pass returns for text, from a null
\* diagnostics slot (<<>> when the pass throws)
EncodingOf(text) ==
  computeSemanticTokens([u \in {"a"} |-> text], "a", Null, <<>>).relative

\* one analysis pass over inText, as the first request after start-up runs it
InitAnalysis ==
  /\ ServerInit
  /\ pc = "input"
  /\ inText \in AllTexts
  /\ outPass = NoPass
  /\ inBefore = <<>> /\ inAfter = <<>> /\ outEdits = <<>>
  /\ inTokens = <<>> /\ outEncoded = <<>>

Analyse ==
  /\ pc = "input"
  /\ LET lexed == Tokenize(inText)
         an == semanticsAnalysis(lexed, Null, <<>>)
         run == computeSemanticTokens([u \in {"a"} |-> inText], "a", Null, <<>>)
         inst == splitLine(lexed)
         entry == [threw |-> FALSE, tokens |-> lexed, diagnostics |-> <<>>, labels |-> <<>>]
     IN  outPass' = [threw |-> run.threw,
                     tokens |-> lexed,
                     inst |-> inst,
                     \* steps[k + 1]: the loop's state after its first k Instructions
                     steps |-> [k \in 1..(Len(inst) + 1) |->
                                  AnalysisLoop(SubSeq(inst, 1, k - 1), 1, entry)],
                     analysed |-> an.tokens,
                     diagnostics |-> run.diagnostics[1],
                     relative |-> run.relative]
  /\ pc' = "analysed"
  /\ UNCHANGED <<serverVars, inText, inBefore, inAfter, outEdits, inTokens, outEncoded>>

NextAnalysis == Analyse

SpecAnalysis == InitAnalysis /\ [][NextAnalysis]_vars

\* computeTokenDelta on every pair of arrays
InitDelta ==
  /\ ServerInit
  /\ pc = "input"
  /\ inBefore \in Arrays \cup {EncodingOf(t) : t \in Texts \cup {EndToEndText}}
  /\ inAfter \in Arrays \cup {EncodingOf(t) : t \in Texts \cup {EndToEndText}}
  /\ outEdits = <<>>
  /\ inText = <<>> /\ outPass = NoPass
  /\ inTokens = <<>> /\ outEncoded = <<>>

Delta ==
  /\ pc = "input"
  /\ outEdits' = computeTokenDelta(inBefore, inAfter)
  /\ pc' = "diffed"
  /\ UNCHANGED <<serverVars, inText, outPass, inBefore, inAfter, inTokens, outEncoded>>

NextDelta == Delta

SpecDelta == InitDelta /\ [][NextDelta]_vars

\* the encoder on every token list in (line, column) order
InitEncode ==
  /\ ServerInit
  /\ pc = "input"
  /\ inTokens = <<>>
  /\ outEncoded = <<>>
  /\ inText = <<>> /\ outPass = NoPass
  /\ inBefore = <<>> /\ inAfter = <<>> /\ outEdits = <<>>

AddToken(t) ==
  /\ pc = "input"
  /\ Len(inTokens) < MaxTokens
  /\ IF inTokens = <<>> THEN TRUE ELSE Before(inTokens[Len(inTokens)], t)
  /\ inTokens' = Append(inTokens, t)
  /\ UNCHANGED <<serverVars, pc, inText, outPass, inBefore, inAfter, outEdits, outEncoded>>

Encode ==
  /\ pc = "input"
  /\ outEncoded' = Relative(inTokens)
  /\ pc' = "encoded"
  /\ UNCHANGED <<serverVars, inText, outPass, inBefore, inAfter, outEdits, inTokens>>

NextEncode ==
  \/ \E t \in InputTokens : AddToken(t)
  \/ Encode

SpecEncode == InitEncode /\ [][NextEncode]_vars

(* ------------------------------------------------------------------ *)
(* What a client does with the replies                                 *)
(* ------------------------------------------------------------------ *)

\* the absolute <<line, column, length>> of the 5-tuples from tuple k (0-based)
\* on, the cursor at (line, col): add deltaLine, reset the column to 0 when
\* deltaLine > 0, add deltaColumn
RECURSIVE ReplayLoop(_, _, _, _)
ReplayLoop(encoded, k, line, col) ==
  IF 5 * k >= Len(encoded) THEN <<>>
  ELSE
    LET deltaLine == encoded[5 * k + 1]
        line1 == line + deltaLine
        col1 == (IF deltaLine > 0 THEN 0 ELSE col) + encoded[5 * k + 2]
    IN  <<<<line1, col1, encoded[5 * k + 3]>>>> \o ReplayLoop(encoded, k + 1, line1, col1)

Replay(encoded) == ReplayLoop(encoded, 0, 0, 0)

\* the <<line, column, length>> of every token of a list
Positions(tokens) ==
  [k \in 1..Len(tokens) |-> <<tokens[k].line_no, tokens[k].start, Len(tokens[k].value)>>]

(* ------------------------------------------------------------------ *)
(* Claims                                                              *)
(* ------------------------------------------------------------------ *)

\* C1: computeTokenDelta returns no edit when before equals after element for
\* element, and otherwise one edit {start, deleteCount, data} such that
\* replacing before[start .. start+deleteCount) with data yields exactly after.
C1_DeltaCorrect ==
  pc = "diffed" =>
    IF inBefore = inAfter
      THEN outEdits = <<>>
      ELSE /\ Len(outEdits) = 1
           /\ Splice(inBefore, outEdits[1]) = inAfter

\* a call on two different arrays with a common prefix and a common suffix
\* around a region that both deletes and inserts
C1_Witness ==
  /\ pc = "diffed"
  /\ inBefore # inAfter
  /\ Len(outEdits) = 1
  /\ outEdits[1].start > 0
  /\ outEdits[1].deleteCount > 0
  /\ outEdits[1].data # <<>>
  /\ outEdits[1].start + outEdits[1].deleteCount < Len(inBefore)

\* C2: for a token list sorted by (line, column) ascending, replaying the
\* encoded 5-tuples reconstructs the absolute (line, column, length) of every
\* token.
C2_RoundTrip ==
  pc = "encoded" => Replay(outEncoded) = Positions(inTokens)

\* a list with two tokens on one line after the first line and a third on a
\* later line
C2_Witness ==
  /\ pc = "encoded"
  /\ Len(inTokens) = 3
  /\ inTokens[1].line_no > 0
  /\ inTokens[2].line_no = inTokens[1].line_no
  /\ inTokens[2].start > inTokens[1].start
  /\ inTokens[3].line_no > inTokens[2].line_no
  /\ inTokens[3].start > 0

\* the positions, in the token list, of the non-comment tokens of line n
LineOperands(tokens, n) ==
  SelectSeq([k \in 1..Len(tokens) |-> k],
            LAMBDA k : tokens[k].line_no = n /\ tokens[k].type # tokenTypes("comment"))

Range(s) == {s[k] : k \in DOMAIN s}

\* C3: analysing "mov eax, 5\nfoo:\nbar baz qux:" produces exactly one
\* diagnostic, "unexpected content after label" on the third line, from the
\* token baz to the end of the final colon, and none for the first two lines.
C3_EndToEnd ==
  (pc = "analysed" /\ inText = EndToEndText) =>
    /\ ~outPass.threw
    /\ outPass.diagnostics =
         <<[level |-> SeverityError,
            message |-> "unexpected content after label",
            start |-> [line |-> 2, character |-> 4],
            end |-> [line |-> 2, character |-> 12],
            relatedInfo |-> <<>>]>>

\* C4: splitLine yields exactly one Instruction per source line, in line
\* order, and each Instruction holds exactly the non-comment tokens of its own
\* line.
C4_OneInstructionPerLine ==
  pc = "analysed" =>
    /\ Len(outPass.inst) = Len(SplitText(inText, <<>>))
    /\ \A n \in 1..Len(outPass.inst) :
         outPass.inst[n].operands = LineOperands(outPass.tokens, n - 1)

\* C5: for every input text an analysis pass runs to completion and returns
\* an encoded token array; no input makes it throw.
C5_NoThrow ==
  pc = "analysed" => ~outPass.threw

\* the modifier bitset bits holds the bit of modifier name
HasModifier(bits, name) == (bits \div (2 ^ tokenModifiers(name))) % 2 = 1

\* C10: for a line whose non-comment tokens are exactly an Unknown identifier
\* followed by ':', the pass records no diagnostic for the line and the head
\* token's encoded tuple carries the function category index and a modifier
\* bitset with the declaration bit.
C10_LabelEncoded ==
  pc = "analysed" =>
    \A n \in 0..(Len(SplitText(inText, <<>>)) - 1) :
      LET ops == LineOperands(outPass.tokens, n)
      IN  (/\ Len(ops) = 2
           /\ outPass.tokens[ops[1]].type = -1
           /\ outPass.tokens[ops[2]].type = tokenTypes("operator")
           /\ outPass.tokens[ops[2]].value = <<":">>)
          =>
          /\ ~outPass.threw
          /\ \A d \in Range(outPass.diagnostics) : d.start.line # n
          /\ outPass.relative[5 * (ops[1] - 1) + 4] = tokenTypes("function")
          /\ HasModifier(outPass.relative[5 * (ops[1] - 1) + 5], "declaration")

\* C6: two consecutive full analyses of an unchanged text, with no diagnostics
\* read in between, leave the same encoded array and the same pending
\* diagnostic list after the second run as after the first.
C6_Idempotent ==
  [][(/\ response.kind = "full" /\ ~response.threw
      /\ response'.kind = "full" /\ ~response'.threw
      /\ response'.uri = response.uri)
     => (response'.data = response.data /\ diagnostics' = diagnostics)]_vars

\* the text of a held document makes an analysis pass throw
Throws(text) == computeSemanticTokens([u \in {"a"} |-> text], "a", Null, <<>>).threw

\* the items of one analysis pass over the current text of a held document
PassItems(uri) == sendDiagnostics(documents, uri, Null, <<>>).diags

\* a diagnostics pull for a held document whose text can be analysed was answered
PullAnswered ==
  /\ response.kind = "diagnostics"
  /\ ~response.threw
  /\ response.uri \in DOMAIN documents
  /\ ~Throws(documents[response.uri])

\* C7: with two documents, the diagnostics a pull returns for a document are
\* those of that document's current text: nothing from the other document is
\* added, and none of its own is missing.
C7_Isolation ==
  PullAnswered => Range(response.items) = Range(PassItems(response.uri))

\* C8: with one document, every diagnostics pull returns exactly the
\* diagnostic list of one analysis pass over the current text: each diagnostic
\* once, none from an earlier pass.
C8_ExactlyOnePass ==
  PullAnswered => response.items = PassItems(response.uri)

\* C9: a request naming a document the store does not hold returns an empty
\* result and raises no error, for a diagnostics pull, a full highlighting and
\* a delta highlighting request.
C9_NotFoundIsEmpty ==
  (response.kind \in {"diagnostics", "full", "delta"} /\ response.uri \notin DOMAIN documents)
    => (/\ ~response.threw
        /\ response.items = <<>>
        /\ response.data = <<>>
        /\ response.edits = <<>>)

\* the operands of Instruction k of the pass, as the Token objects were when
\* the loop reached it
StepOperands(k) ==
  [i \in 1..Len(outPass.inst[k].operands) |->
     outPass.steps[k].tokens[outPass.inst[k].operands[i]]]

\* an Error diagnostic from the start of token from to the end of token to
ErrorDiagnostic(message, from, to) ==
  [level |-> SeverityError,
   message |-> message,
   start |-> [line |-> from.line_no, character |-> from.start],
   end |-> [line |-> to.line_no, character |-> to.start + Len(to.value)],
   relatedInfo |-> <<>>]

\* C11: for an Instruction whose head is Unknown and which has more than two
\* tokens, label validation records exactly one Error diagnostic "unexpected
\* content after label" from the start of the third token to the end of the
\* last, leaves the head Unknown, and goes on to the next Instruction.
C11_UnexpectedContent ==
  pc = "analysed" =>
    \A k \in 1..Len(outPass.inst) :
      LET ops == StepOperands(k)
          reached == outPass.steps[k]
          left == outPass.steps[k + 1]
      IN  (~reached.threw /\ Len(ops) > 2 /\ ops[1].type = -1) =>
            /\ ~left.threw
            /\ left.diagnostics =
                 Append(reached.diagnostics,
                        ErrorDiagnostic("unexpected content after label", ops[3], ops[Len(ops)]))
            /\ left.tokens = reached.tokens
            /\ left.labels = reached.labels

\* a pass of two Instructions, both with an Unknown head and more than two
\* tokens, whose last token is longer than one character
C11_Witness ==
  /\ pc = "analysed"
  /\ Len(outPass.inst) = 2
  /\ Len(StepOperands(1)) > 2
  /\ StepOperands(1)[1].type = -1
  /\ Len(StepOperands(1)[Len(StepOperands(1))].value) > 1
  /\ Len(outPass.diagnostics) = 2
  /\ outPass.analysed[1].type = -1

\* C12: for an Instruction whose head is Unknown and which has exactly one
\* token, or two tokens whose second is not ':', label validation records
\* exactly one Error diagnostic "missing colon for label" covering the head
\* token only, and the head is not reclassified.
C12_MissingColon ==
  pc = "analysed" =>
    \A k \in 1..Len(outPass.inst) :
      LET ops == StepOperands(k)
          reached == outPass.steps[k]
          left == outPass.steps[k + 1]
      IN  (/\ ~reached.threw
           /\ Len(ops) \in {1, 2}
           /\ ops[1].type = -1
           /\ IF Len(ops) = 2 THEN ops[2].value # <<":">> ELSE TRUE) =>
            /\ ~left.threw
            /\ left.diagnostics =
                 Append(reached.diagnostics,
                        ErrorDiagnostic("missing colon for label", ops[1], ops[1]))
            /\ left.tokens = reached.tokens
            /\ left.labels = reached.labels

\* C13: in every encoded array a pass returns, each tuple's category index is a
\* position of the token-type legend (0 through 7) and its modifier bits use
\* only positions of the modifier legend.
C13_IndicesInLegend ==
  (pc = "analysed" /\ ~outPass.threw) =>
    \A k \in 0..(Len(outPass.relative) \div 5 - 1) :
      /\ outPass.relative[5 * k + 4] \in 0..(Len(tokenTypesLegend) - 1)
      /\ outPass.relative[5 * k + 5] \in 0..(2 ^ Len(tokenModifiersLegend) - 1)

\* C14: the store holds an entry for a document identifier only while the
\* document is open: after a close event none remains for that identifier.
C14_EntryOnlyWhileOpen ==
  \A uri \in DOMAIN prevTokens : uri \in DOMAIN documents

Reserved == instructions \cup registers \cup types \cup directives

\* Keyword, Variable, Type, Macro, in that priority
ReservedCategory(str) ==
  IF str \in instructions THEN tokenTypes("keyword")
  ELSE IF str \in registers THEN tokenTypes("variable")
  ELSE IF str \in types THEN tokenTypes("type")
  ELSE tokenTypes("macro")

\* C15: an identifier whose text is in one of the four vocabularies is
\* classified Keyword, Variable, Type or Macro in that priority; after the
\* pass it is never FunctionLabel, and an Instruction it heads adds no
\* diagnostic and no label, even when ':' follows it.
C15_ReservedNeverLabel ==
  pc = "analysed" =>
    /\ \A i \in 1..Len(outPass.tokens) :
         outPass.tokens[i].value \in Reserved =>
           /\ outPass.tokens[i].type = ReservedCategory(outPass.tokens[i].value)
           /\ outPass.analysed[i].type = ReservedCategory(outPass.tokens[i].value)
           /\ ~outPass.threw =>
                outPass.relative[5 * (i - 1) + 4] = ReservedCategory(outPass.tokens[i].value)
    /\ \A k \in 1..Len(outPass.inst) :
         LET ops == StepOperands(k)
         IN  (~outPass.steps[k].threw /\ Len(ops) > 0 /\ ops[1].value \in Reserved) =>
               outPass.steps[k + 1] = outPass.steps[k]

\* a directive at the head of a line, followed by ':' and nothing else
C15_Witness ==
  /\ pc = "analysed"
  /\ Len(outPass.tokens) = 2
  /\ outPass.tokens[1].value \in directives
  /\ outPass.tokens[2].value = <<":">>
  /\ outPass.analysed[1].type = tokenTypes("macro")
  /\ outPass.diagnostics = <<>>

\* C16: the lexer's token list is sorted by (line, column) ascending without
\* overlap: of two consecutive tokens on one line the earlier ends at or
\* before the later's column, and none follows a Comment on its line.
C16_SortedNoOverlap ==
  pc = "analysed" =>
    \A i \in 1..(Len(outPass.tokens) - 1) :
      LET s == outPass.tokens[i]
          t == outPass.tokens[i + 1]
      IN  IF s.line_no = t.line_no
            THEN /\ s.start + Len(s.value) <= t.start
                 /\ s.type # tokenTypes("comment")
            ELSE s.line_no < t.line_no

\* a token on the first line, then a token and an adjacent comment on the second
C16_Witness ==
  /\ pc = "analysed"
  /\ Len(outPass.tokens) = 3
  /\ outPass.tokens[1].line_no = 0
  /\ outPass.tokens[2].line_no = 1
  /\ outPass.tokens[3].line_no = 1
  /\ outPass.tokens[3].start = outPass.tokens[2].start + Len(outPass.tokens[2].value)
  /\ outPass.tokens[3].type = tokenTypes("comment")

\* the tokens of line n (0-based) in the lexer's list, comments included
LineTokens(tokens, n) == SelectSeq(tokens, LAMBDA t : t.line_no = n)

RECURSIVE SumLengths(_)
SumLengths(tokens) ==
  IF tokens = <<>> THEN 0 ELSE Len(Head(tokens).value) + SumLengths(Tail(tokens))

\* the offsets of line that no token of tokens spans: the skipped characters
SkippedOffsets(line, tokens) ==
  {c \in 0..(Len(line) - 1) :
     \A k \in 1..Len(tokens) :
       ~(tokens[k].start <= c /\ c < tokens[k].start + Len(tokens[k].value))}

\* C17: for every line the scan ends, each token is the stretch of the line
\* at its column, and the lengths of the line's tokens plus the number of
\* characters skipped without a token add up to the line's length.
C17_Coverage ==
  pc = "analysed" =>
    LET lines == SplitText(inText, <<>>)
    IN  \A n \in 1..Len(lines) :
          LET emitted == LineTokens(outPass.tokens, n - 1)
          IN  /\ \A k \in 1..Len(emitted) :
                   emitted[k].value =
                     SubSeq(lines[n], emitted[k].start + 1,
                            emitted[k].start + Len(emitted[k].value))
              /\ SumLengths(emitted) + Cardinality(SkippedOffsets(lines[n], emitted))
                   = Len(lines[n])

\* a line with a two-digit number, a skipped blank, an identifier and a comment
C17_Witness ==
  /\ pc = "analysed"
  /\ Len(SplitText(inText, <<>>)) = 1
  /\ Len(outPass.tokens) = 3
  /\ outPass.tokens[1].type = tokenTypes("number")
  /\ Len(outPass.tokens[1].value) = 2
  /\ outPass.tokens[2].type = -1
  /\ outPass.tokens[3].type = tokenTypes("comment")
  /\ Cardinality(SkippedOffsets(inText, outPass.tokens)) = 1

\* the length of the longest common prefix of two arrays
CommonPrefix(before, after) ==
  CHOOSE n \in 0..Min(Len(before), Len(after)) :
    /\ SubSeq(before, 1, n) = SubSeq(after, 1, n)
    /\ n = Min(Len(before), Len(after)) \/ before[n + 1] # after[n + 1]

\* the single contiguous replacements that turn before into after
Replacements(before, after) ==
  LET spans == {x \in (0..Len(before)) \X (0..Len(before)) \X (0..Len(after)) :
                  x[1] + x[2] <= Len(before) /\ x[1] + x[3] <= Len(after)}
      edits == {[start |-> x[1], deleteCount |-> x[2],
                 data |-> SubSeq(after, x[1] + 1, x[1] + x[3])] : x \in spans}
  IN  {e \in edits : Splice(before, e) = after}

\* C19: computeTokenDelta returns at most one edit; the edit starts at the
\* length of the longest common prefix of the two arrays, and no single
\* contiguous replacement that turns before into after has a smaller
\* deleteCount + length of data.
C19_MinimalEdit ==
  pc = "diffed" =>
    /\ Len(outEdits) <= 1
    /\ Len(outEdits) = 1 =>
         /\ outEdits[1].start = CommonPrefix(inBefore, inAfter)
         /\ outEdits[1] \in Replacements(inBefore, inAfter)
         /\ \A e \in Replacements(inBefore, inAfter) :
              outEdits[1].deleteCount + Len(outEdits[1].data)
                <= e.deleteCount + Len(e.data)

\* a call whose arrays share a suffix after the first mismatch, so that a
\* replacement up to the end of both arrays is correct and longer
C19_Witness ==
  /\ pc = "diffed"
  /\ Len(outEdits) = 1
  /\ outEdits[1].start + outEdits[1].deleteCount < Len(inBefore)
  /\ \E e \in Replacements(inBefore, inAfter) :
       e.deleteCount + Len(e.data) > outEdits[1].deleteCount + Len(outEdits[1].data)

\* the array the server stores for uri, the empty array before any analysis
\* (server.ts 452)
StoredTokens(uri) == IF uri \in DOMAIN prevTokens THEN prevTokens[uri] ELSE <<>>

\* the array the client holds for uri, the empty array before any reply
HeldTokens(uri) == IF uri \in DOMAIN clientTokens THEN clientTokens[uri] ELSE <<>>

\* the encoding of a text: its tokens, analysed, in the relative encoding
TextEncoding(text) == Relative(semanticsAnalysis(Tokenize(text), Null, <<>>).tokens)

\* C18: the stored previous snapshot always equals the token array the client
\* holds, and after each reply to a full or a delta highlighting request for a
\* held document the client's array is the encoding of the document's text.
C18_ClientInSync ==
  /\ \A uri \in DOMAIN prevTokens \cup DOMAIN clientTokens :
       StoredTokens(uri) = HeldTokens(uri)
  /\ (response.kind \in {"full", "delta"} /\ response.uri \in DOMAIN documents) =>
       HeldTokens(response.uri) = TextEncoding(documents[response.uri])

\* C20: a diagnostics read that completes leaves the diagnostics slot null,
\* and so does every text-change event after which the server goes on: a pull
\* that follows the event directly finds the slot null and runs an analysis.
C20_ReadLeavesSlotAbsent ==
  [][/\ (response'.kind = "diagnostics" /\ ~response'.threw
           /\ response'.uri \in DOMAIN documents') => diagnostics' = Null
     /\ (response'.kind = "none" /\ DOMAIN documents \subseteq DOMAIN documents'
           /\ pc = "server" /\ pc' = "server") => diagnostics' = Null]_vars

====
